---- MODULE Spec2Model ----
(***************************************************************************)
(* A model of src/shdc/spirvcross.cc: the per-target translation pass      *)
(* (spirvcross_t::translate), the binding-slot policy (fix_bind_slots),    *)
(* the reflection extraction (parse_reflection), the cross-shader          *)
(* deduplication (the two gather_unique functions), the interface check    *)
(* (validate_linking) and the binary reflection writer.                    *)
(*                                                                         *)
(* The SPIRV-Cross compiler object is modelled by the data the code reads  *)
(* from it and the decorations it writes to it.  Strings are TLA+ strings  *)
(* where the code only compares them and byte sequences (StrBytes) where   *)
(* the code writes them out.                                               *)
(***************************************************************************)
EXTENDS Integers, Sequences, FiniteSets, TLC

VARIABLES
    slang,      \* the target language of the pass (slang_t::type_t)
    blobs,      \* spirv.blobs: sequence of [snippet_index, bytecode]
    programs,   \* inp.programs in map order: sequence of program_t
    bi,         \* position of the range-for over spirv.blobs (1-based)
    pc,         \* position inside spirvcross_t::translate
    compiler,   \* the Compiler object of the blob being translated
    src,        \* the local spirvcross_source_t of the loop body
    spv_cross,  \* the result: [sources, unique_uniform_blocks, unique_images, error]
    err_sets,   \* history: number of assignments to spv_cross.error
    oob,        \* history: array indexes parse_reflection stored to outside [0, NUM)
    trace,      \* history: the steps taken, in order
    wr_in,      \* writer: the value handed to the writer under test
    wr_ndebug,  \* writer: TRUE when the build defines NDEBUG (assert compiled out)
    wr_pc,      \* writer: "idle" | "ready" | "written" | "aborted"
    stream      \* writer: the bytes written to the FILE*

vars == <<slang, blobs, programs, bi, pc, compiler, src, spv_cross, err_sets,
          oob, trace, wr_in, wr_ndebug, wr_pc, stream>>

passVars == <<slang, blobs, programs, bi, pc, compiler, src, spv_cross,
              err_sets, oob, trace>>

writerVars == <<wr_in, wr_ndebug, wr_pc, stream>>

----------------------------------------------------------------------------
(* Program constants *)

\* spirvcross.cc:20
vk_fs_ub_binding_offset == 4

\* attr_t::NUM, the size of the inputs/outputs arrays (declared in shdc.h)
NUM == 16

\* <cstdint>, used by the assert of write_string (spirvcross.cc:458)
UINT16_MAX == 65535

\* spirvcross.cc:504
BINARY_FORMAT_VERSION == 1

U16 == 2^16

U8 == 2^8

----------------------------------------------------------------------------
(* Bounds of the model *)

\* longest spirv.blobs sequence of a pass
MaxBlobs == 3

\* most uniform blocks of one shader in the single-shader specification
MaxUB == 6

\* most sampled images of one shader in the single-shader specification
MaxImg == 2

----------------------------------------------------------------------------
(* Small helpers *)

Range(s) == {s[i] : i \in DOMAIN s}

\* all sequences over S of length 0..n
RECURSIVE SeqsUpTo(_, _)
SeqsUpTo(S, n) ==
    IF n = 0 THEN {<<>>}
    ELSE LET shorter == SeqsUpTo(S, n - 1)
         IN shorter \cup {Append(s, x) : s \in {t \in shorter : Len(t) = n - 1}, x \in S}

----------------------------------------------------------------------------
(* The SPIRV-Cross side: types and resources as the code queries them *)

SPIRFloat(vecsize, columns) ==
    [basetype |-> "Float", vecsize |-> vecsize, columns |-> columns, array |-> <<>>]

SPIRFloatArray(vecsize, columns, n) ==
    [basetype |-> "Float", vecsize |-> vecsize, columns |-> columns, array |-> <<n>>]

\* struct layouts of uniform blocks: members with their SPIRType and byte offset
LayoutVec4 == [size |-> 16,
               members |-> << [name |-> "color", type |-> SPIRFloat(4, 1), offset |-> 0] >>]

LayoutMvp == [size |-> 80,
              members |-> << [name |-> "mvp", type |-> SPIRFloat(4, 4), offset |-> 0],
                             [name |-> "tint", type |-> SPIRFloat(4, 1), offset |-> 64] >>]

LayoutMisc == [size |-> 96,
               members |-> << [name |-> "scale", type |-> SPIRFloat(1, 1), offset |-> 0],
                              [name |-> "uv", type |-> SPIRFloat(2, 1), offset |-> 8],
                              [name |-> "rot", type |-> SPIRFloat(3, 3), offset |-> 16],
                              [name |-> "bones", type |-> SPIRFloatArray(3, 1, 2), offset |-> 64] >>]

\* a Resource of res.uniform_buffers; set/binding are its current decorations
UbRes(name, layout, set, binding) ==
    [name |-> name, members |-> layout.members, size |-> layout.size,
     set |-> set, binding |-> binding]

\* a Resource of res.sampled_images
ImgRes(name, dim, arrayed, sampled, set, binding) ==
    [name |-> name, dim |-> dim, arrayed |-> arrayed, sampled |-> sampled,
     set |-> set, binding |-> binding]

\* a Resource of res.stage_inputs / res.stage_outputs with its Location decoration
IoRes(name, location) == [name |-> name, location |-> location]

\* the compiler object built from a blob's bytecode
Module(model, ubs, imgs, ins, outs, compiles) ==
    [model |-> model,
     entry_points |-> << [name |-> "main", execution_model |-> model] >>,
     uniform_buffers |-> ubs, sampled_images |-> imgs,
     stage_inputs |-> ins, stage_outputs |-> outs,
     compiles |-> compiles,
     colmajor |-> {}, flattened |-> FALSE]

NoCompiler == [model |-> "None"]

\* inp.snippets[snippet_index].type of the snippet a blob was compiled from
SnippetType(blob) == IF blob.bytecode.model = "Vertex" THEN "VS" ELSE "FS"

\* the names inp.vs_map / inp.fs_map map to a snippet index
SnippetName(snippet_index) ==
    CASE snippet_index = 1 -> "s1"
      [] snippet_index = 2 -> "s2"
      [] snippet_index = 3 -> "s3"
      [] snippet_index = 4 -> "s4"
      [] OTHER -> "s5"

----------------------------------------------------------------------------
(* Target dispatch of spirvcross_t::translate *)

Slangs == {"GLSL330", "GLSL100", "GLSL300ES", "HLSL5",
           "METAL_MACOS", "METAL_IOS", "METAL_SIM", "WGPU"}

\* a slang_t value the switch does not name (default: break)
SlangOther == "SLANG_NUM"

\* the switch with METAL_SIM missing from the to_msl cases and sent to to_glsl
Backend_sim_to_glsl(sl) ==
    CASE sl \in {"GLSL330", "GLSL100", "GLSL300ES", "WGPU", "METAL_SIM"} -> "glsl"
      [] sl = "HLSL5" -> "hlsl"
      [] sl \in {"METAL_MACOS", "METAL_IOS"} -> "msl"
      [] OTHER -> "none"

\* which to_xxx function the switch calls
Backend(sl) ==
    CASE sl \in {"GLSL330", "GLSL100", "GLSL300ES", "WGPU"} -> "glsl"
      [] sl = "HLSL5" -> "hlsl"
      [] sl \in {"METAL_MACOS", "METAL_IOS", "METAL_SIM"} -> "msl"
      [] OTHER -> "none"

\* the is_vulkan argument the called function hands to fix_bind_slots and
\* parse_reflection: to_glsl passes its parameter, to_hlsl5 and to_msl pass false
IsVulkan(sl) == sl = "WGPU"

----------------------------------------------------------------------------
(* Binding slots and layout fixups *)

\* fix_bind_slots as it was before: a resource that carries an explicit binding
\* keeps its decorations
fix_bind_slots_keep_explicit(c, type, is_vulkan) ==
    LET ub_slot == IF is_vulkan
                   THEN (IF type = "VS" THEN 0 ELSE vk_fs_ub_binding_offset)
                   ELSE 0
        img_set == IF type = "VS" THEN 1 ELSE 2
    IN [c EXCEPT
          !.uniform_buffers =
              [i \in DOMAIN @ |->
                  IF @[i].binding # 0 THEN @[i]
                  ELSE [@[i] EXCEPT !.set = 0, !.binding = ub_slot + (i - 1)]],
          !.sampled_images =
              [i \in DOMAIN @ |->
                  IF @[i].binding # 0 THEN @[i]
                  ELSE [@[i] EXCEPT !.set = img_set, !.binding = i - 1]]]

\* ub_slot and img_slot are uint32_t counters; a shader's resource count stays far
\* below 2^32, so the increments never wrap
fix_bind_slots(c, type, is_vulkan) ==
    LET ub_slot == IF is_vulkan
                   THEN (IF type = "VS" THEN 0 ELSE vk_fs_ub_binding_offset)
                   ELSE 0
        img_set == IF type = "VS" THEN 1 ELSE 2
    IN [c EXCEPT
          !.uniform_buffers =
              [i \in DOMAIN @ |->
                  [@[i] EXCEPT !.set = 0, !.binding = ub_slot + (i - 1)]],
          !.sampled_images =
              [i \in DOMAIN @ |->
                  [@[i] EXCEPT !.set = img_set, !.binding = i - 1]]]

\* the (block, member) pairs decorated DecorationColMajor
fix_ub_matrix_force_colmajor(c) ==
    [c EXCEPT !.colmajor =
        @ \cup UNION {
            {<<i, m>> : m \in {k \in DOMAIN c.uniform_buffers[i].members :
                LET t == c.uniform_buffers[i].members[k].type
                IN t.basetype = "Float" /\ t.vecsize > 1 /\ t.columns > 1}}
            : i \in DOMAIN c.uniform_buffers}]

flatten_uniform_blocks(c) == [c EXCEPT !.flattened = TRUE]

----------------------------------------------------------------------------
(* Reflection extraction *)

spirtype_to_uniform_type(type) ==
    IF type.basetype = "Float"
    THEN IF type.columns = 1
         THEN CASE type.vecsize = 1 -> "FLOAT"
                [] type.vecsize = 2 -> "FLOAT2"
                [] type.vecsize = 3 -> "FLOAT3"
                [] type.vecsize = 4 -> "FLOAT4"
                [] OTHER -> "INVALID"
         ELSE IF type.vecsize = 4 /\ type.columns = 4 THEN "MAT4" ELSE "INVALID"
    ELSE "INVALID"

spirtype_to_image_type(img) ==
    IF img.arrayed
    THEN IF img.dim = "Dim2D" THEN "IMAGE_TYPE_ARRAY" ELSE "IMAGE_TYPE_INVALID"
    ELSE CASE img.dim = "Dim2D" -> "IMAGE_TYPE_2D"
           [] img.dim = "DimCube" -> "IMAGE_TYPE_CUBE"
           [] img.dim = "Dim3D" -> "IMAGE_TYPE_3D"
           [] OTHER -> "IMAGE_TYPE_INVALID"

spirtype_to_image_basetype(basetype) ==
    CASE basetype \in {"Int", "Short", "SByte"} -> "IMAGE_BASETYPE_SINT"
      [] basetype \in {"UInt", "UShort", "UByte"} -> "IMAGE_BASETYPE_UINT"
      [] OTHER -> "IMAGE_BASETYPE_FLOAT"

\* a default-constructed attr_t: the unused slot
attr_t == [slot |-> -1, name |-> "", sem_name |-> "", sem_index |-> 0]

\* a default-constructed spirvcross_refl_t
spirvcross_refl_t ==
    [stage |-> "INVALID", entry_point |-> "",
     inputs |-> [i \in 0..(NUM - 1) |-> attr_t],
     outputs |-> [i \in 0..(NUM - 1) |-> attr_t],
     uniform_blocks |-> <<>>, images |-> <<>>]

\* the attr_t parse_reflection builds for one stage input or output
refl_attr(res_attr) ==
    [slot |-> res_attr.location, name |-> res_attr.name,
     sem_name |-> "TEXCOORD", sem_index |-> res_attr.location]

\* the loop "refl.inputs[refl_attr.slot] = refl_attr" over resources k..: a store
\* whose index is inside the array lands in it; one outside does not touch it
RECURSIVE store_attrs(_, _, _)
store_attrs(arr, resources, k) ==
    IF k > Len(resources) THEN arr
    ELSE LET a == refl_attr(resources[k])
         IN store_attrs(IF a.slot \in DOMAIN arr THEN [arr EXCEPT ![a.slot] = a] ELSE arr,
                        resources, k + 1)

\* the indexes of the stores of that loop that fall outside the array
stores_outside(resources) ==
    {resources[k].location : k \in DOMAIN resources} \ (0..(NUM - 1))

\* the slot of a uniform block: its binding, shifted back on a Vulkan-style target
refl_ub_slot(binding, is_vulkan) ==
    IF is_vulkan /\ binding >= vk_fs_ub_binding_offset THEN binding - 4 ELSE binding

refl_uniform(member) ==
    [name |-> member.name,
     type |-> spirtype_to_uniform_type(member.type),
     array_count |-> IF Len(member.type.array) > 0 THEN member.type.array[1] ELSE 0,
     offset |-> member.offset]

refl_ub(ub_res, is_vulkan) ==
    [slot |-> refl_ub_slot(ub_res.binding, is_vulkan),
     size |-> ub_res.size,
     name |-> ub_res.name,
     uniforms |-> [m \in DOMAIN ub_res.members |-> refl_uniform(ub_res.members[m])],
     unique_index |-> -1]

refl_img(img_res) ==
    [slot |-> img_res.binding,
     name |-> img_res.name,
     type |-> spirtype_to_image_type(img_res),
     base_type |-> spirtype_to_image_basetype(img_res.sampled),
     unique_index |-> -1]

\* the name of the first entry point of the compiler's execution model
refl_entry_point(c) ==
    LET hits == {k \in DOMAIN c.entry_points :
                    c.entry_points[k].execution_model = c.model}
    IN IF hits = {} THEN ""
       ELSE c.entry_points[CHOOSE k \in hits : \A h \in hits : k <= h].name

parse_reflection(c, is_vulkan) ==
    [stage |-> CASE c.model = "Vertex" -> "VS"
                 [] c.model = "Fragment" -> "FS"
                 [] OTHER -> "INVALID",
     entry_point |-> refl_entry_point(c),
     inputs |-> store_attrs(spirvcross_refl_t.inputs, c.stage_inputs, 1),
     outputs |-> store_attrs(spirvcross_refl_t.outputs, c.stage_outputs, 1),
     uniform_blocks |-> [i \in DOMAIN c.uniform_buffers |->
                            refl_ub(c.uniform_buffers[i], is_vulkan)],
     images |-> [i \in DOMAIN c.sampled_images |-> refl_img(c.sampled_images[i])]]

\* a default-constructed spirvcross_source_t
spirvcross_source_t ==
    [valid |-> FALSE, source_code |-> "", refl |-> spirvcross_refl_t, snippet_index |-> -1]


----------------------------------------------------------------------------
(* Errors: errmsg_t with the fmt::format arguments of its message kept apart *)

errmsg_t ==
    [valid |-> FALSE, line_index |-> 0, msg |-> "", name1 |-> "", name2 |-> "",
     attr |-> -1, attr1 |-> "", attr2 |-> ""]

\* errmsg_t::error / inp.error with a message of one string argument
error1(line_index, msg, name) ==
    [errmsg_t EXCEPT !.valid = TRUE, !.line_index = line_index, !.msg = msg,
                     !.name1 = name]

\* the first source line of a snippet: inp.snippets[snippet_index].lines[0]
SnippetLine(snippet_index) == 10 * snippet_index

----------------------------------------------------------------------------
(* Structural equality of shdc.h: uniform_block_t::equals, image_t::equals, *)
(* attr_t::equals.  The binding slot is not compared.                       *)

uniform_equals(a, b) ==
    /\ a.name = b.name
    /\ a.type = b.type
    /\ a.array_count = b.array_count
    /\ a.offset = b.offset

uniform_block_equals(a, b) ==
    /\ a.name = b.name
    /\ a.size = b.size
    /\ Len(a.uniforms) = Len(b.uniforms)
    /\ \A i \in DOMAIN a.uniforms : uniform_equals(a.uniforms[i], b.uniforms[i])

image_equals(a, b) ==
    /\ a.name = b.name
    /\ a.type = b.type
    /\ a.base_type = b.base_type

attr_equals(a, b) ==
    /\ a.slot = b.slot
    /\ a.name = b.name
    /\ a.sem_name = b.sem_name
    /\ a.sem_index = b.sem_index

----------------------------------------------------------------------------
(* Cross-shader deduplication *)

\* 0-based index of the first pool entry with that name, or -1
find_by_name(pool, name) ==
    LET hits == {i \in DOMAIN pool : pool[i].name = name}
    IN IF hits = {} THEN -1
       ELSE (CHOOSE i \in hits : \A h \in hits : i <= h) - 1

find_unique_uniform_block_by_name(sc, name) ==
    find_by_name(sc.unique_uniform_blocks, name)

find_unique_image_by_name(sc, name) == find_by_name(sc.unique_images, name)

\* gather_ub_step without the equals() check: any block of a known name is
\* taken for the pool entry
gather_ub_step_unchecked(sc, s, j) ==
    LET ub == sc.sources[s].refl.uniform_blocks[j]
        other_ub_index == find_unique_uniform_block_by_name(sc, ub.name)
    IN IF other_ub_index >= 0
       THEN [ok |-> TRUE,
             sc |-> [sc EXCEPT
                !.sources[s].refl.uniform_blocks[j].unique_index = other_ub_index]]
       ELSE LET fresh == [ub EXCEPT !.unique_index = Len(sc.unique_uniform_blocks)]
            IN [ok |-> TRUE,
                sc |-> [sc EXCEPT
                   !.sources[s].refl.uniform_blocks[j] = fresh,
                   !.unique_uniform_blocks = Append(@, fresh)]]

\* gather_ub_step with the new index taken after the push_back (one too high)
gather_ub_step_index_after_push(sc, s, j) ==
    LET ub == sc.sources[s].refl.uniform_blocks[j]
        other_ub_index == find_unique_uniform_block_by_name(sc, ub.name)
    IN IF other_ub_index >= 0
       THEN IF uniform_block_equals(ub, sc.unique_uniform_blocks[other_ub_index + 1])
            THEN [ok |-> TRUE,
                  sc |-> [sc EXCEPT
                     !.sources[s].refl.uniform_blocks[j].unique_index = other_ub_index]]
            ELSE [ok |-> FALSE,
                  sc |-> [sc EXCEPT !.error =
                     error1(0, "conflicting uniform block definitions found for '{}'",
                            ub.name)]]
       ELSE LET fresh == [ub EXCEPT !.unique_index = Len(sc.unique_uniform_blocks) + 1]
            IN [ok |-> TRUE,
                sc |-> [sc EXCEPT
                   !.sources[s].refl.uniform_blocks[j] = fresh,
                   !.unique_uniform_blocks = Append(@, fresh)]]

\* the body of the inner loop of gather_unique_uniform_blocks for block j of
\* source s: [ok, sc], ok = FALSE where the code returns false
gather_ub_step(sc, s, j) ==
    LET ub == sc.sources[s].refl.uniform_blocks[j]
        other_ub_index == find_unique_uniform_block_by_name(sc, ub.name)
    IN IF other_ub_index >= 0
       THEN IF uniform_block_equals(ub, sc.unique_uniform_blocks[other_ub_index + 1])
            THEN [ok |-> TRUE,
                  sc |-> [sc EXCEPT
                     !.sources[s].refl.uniform_blocks[j].unique_index = other_ub_index]]
            ELSE [ok |-> FALSE,
                  sc |-> [sc EXCEPT !.error =
                     error1(0, "conflicting uniform block definitions found for '{}'",
                            ub.name)]]
       ELSE LET fresh == [ub EXCEPT !.unique_index = Len(sc.unique_uniform_blocks)]
            IN [ok |-> TRUE,
                sc |-> [sc EXCEPT
                   !.sources[s].refl.uniform_blocks[j] = fresh,
                   !.unique_uniform_blocks = Append(@, fresh)]]

RECURSIVE gather_ub_loop(_, _, _)
gather_ub_loop(sc, s, j) ==
    IF s > Len(sc.sources) THEN [ok |-> TRUE, sc |-> sc]
    ELSE IF j > Len(sc.sources[s].refl.uniform_blocks) THEN gather_ub_loop(sc, s + 1, 1)
    ELSE LET r == gather_ub_step(sc, s, j)
         IN IF r.ok THEN gather_ub_loop(r.sc, s, j + 1) ELSE r

gather_unique_uniform_blocks(sc) == gather_ub_loop(sc, 1, 1)

\* gather_img_step without the lookup by name: every image visited is taken
\* as a new unique image
gather_img_step_always_push(sc, s, j) ==
    LET img == sc.sources[s].refl.images[j]
        fresh == [img EXCEPT !.unique_index = Len(sc.unique_images)]
    IN [ok |-> TRUE,
        sc |-> [sc EXCEPT
           !.sources[s].refl.images[j] = fresh,
           !.unique_images = Append(@, fresh)]]

gather_img_step(sc, s, j) ==
    LET img == sc.sources[s].refl.images[j]
        other_img_index == find_unique_image_by_name(sc, img.name)
    IN IF other_img_index >= 0
       THEN IF image_equals(img, sc.unique_images[other_img_index + 1])
            THEN [ok |-> TRUE,
                  sc |-> [sc EXCEPT
                     !.sources[s].refl.images[j].unique_index = other_img_index]]
            ELSE [ok |-> FALSE,
                  sc |-> [sc EXCEPT !.error =
                     error1(0, "conflicting texture definitions found for '{}'",
                            img.name)]]
       ELSE LET fresh == [img EXCEPT !.unique_index = Len(sc.unique_images)]
            IN [ok |-> TRUE,
                sc |-> [sc EXCEPT
                   !.sources[s].refl.images[j] = fresh,
                   !.unique_images = Append(@, fresh)]]

RECURSIVE gather_img_loop(_, _, _)
gather_img_loop(sc, s, j) ==
    IF s > Len(sc.sources) THEN [ok |-> TRUE, sc |-> sc]
    ELSE IF j > Len(sc.sources[s].refl.images) THEN gather_img_loop(sc, s + 1, 1)
    ELSE LET r == gather_img_step(sc, s, j)
         IN IF r.ok THEN gather_img_loop(r.sc, s, j + 1) ELSE r

gather_unique_images(sc) == gather_img_loop(sc, 1, 1)

----------------------------------------------------------------------------
(* Interface validation *)

\* 0-based index of the first source of that snippet, or -1
find_source_by_snippet_index(sc, snippet_index) ==
    LET hits == {i \in DOMAIN sc.sources : sc.sources[i].snippet_index = snippet_index}
    IN IF hits = {} THEN -1
       ELSE (CHOOSE i \in hits : \A h \in hits : i <= h) - 1

\* inp.vs_map.at(name) and inp.fs_map.at(name)
snippet_map(name) == CHOOSE i \in 1..5 : SnippetName(i) = name

\* first_mismatch with the fragment shader's outputs read in place of its inputs
RECURSIVE first_mismatch_fs_outputs(_, _, _)
first_mismatch_fs_outputs(vs_src, fs_src, i) ==
    IF i >= NUM THEN -1
    ELSE IF ~attr_equals(vs_src.refl.outputs[i], fs_src.refl.outputs[i]) THEN i
    ELSE first_mismatch_fs_outputs(vs_src, fs_src, i + 1)

\* the loop over the attribute slots i.. of one program: the first mismatch, or -1
RECURSIVE first_mismatch(_, _, _)
first_mismatch(vs_src, fs_src, i) ==
    IF i >= NUM THEN -1
    ELSE IF ~attr_equals(vs_src.refl.outputs[i], fs_src.refl.inputs[i]) THEN i
    ELSE first_mismatch(vs_src, fs_src, i + 1)

\* the body of the loop over inp.programs for one program: its error, or errmsg_t()
validate_program(prog, sc) ==
    LET vs_src == sc.sources[find_source_by_snippet_index(sc, snippet_map(prog.vs_name)) + 1]
        fs_src == sc.sources[find_source_by_snippet_index(sc, snippet_map(prog.fs_name)) + 1]
        i == first_mismatch(vs_src, fs_src, 0)
    IN IF i >= 0
       THEN [valid |-> TRUE, line_index |-> prog.line_index,
             msg |-> "outputs of vs '{}' don't match inputs of fs '{}' for attr #{} (vs={},fs={})",
             name1 |-> prog.vs_name, name2 |-> prog.fs_name, attr |-> i,
             attr1 |-> vs_src.refl.outputs[i].name, attr2 |-> fs_src.refl.inputs[i].name]
       ELSE errmsg_t

RECURSIVE validate_from(_, _, _)
validate_from(progs, sc, p) ==
    IF p > Len(progs) THEN errmsg_t
    ELSE LET err == validate_program(progs[p], sc)
         IN IF err.valid THEN err ELSE validate_from(progs, sc, p + 1)

validate_linking(progs, sc) == validate_from(progs, sc, 1)


----------------------------------------------------------------------------
(* spirvcross_t::translate, one action per step of the function *)

\* a default-constructed spirvcross_t
spirvcross_t ==
    [sources |-> <<>>, unique_uniform_blocks |-> <<>>, unique_images |-> <<>>,
     error |-> errmsg_t]

\* a history entry: the step, the blob it worked on, and whether it succeeded
Step(name, ok) == [step |-> name, blob |-> bi, ok |-> ok]

\* head of "for (const auto& blob: spirv.blobs)" and the switch on slang
NextBlob ==
    /\ pc = "loop"
    /\ IF bi > Len(blobs)
       THEN /\ pc' = "validate_linking"
            /\ UNCHANGED <<compiler, src, trace>>
       ELSE /\ src' = spirvcross_source_t
            /\ trace' = Append(trace, Step("blob", TRUE))
            /\ IF Backend(slang) = "none"
               THEN pc' = "src_valid" /\ compiler' = NoCompiler
               ELSE pc' = "fix_bind_slots" /\ compiler' = blobs[bi].bytecode
    /\ UNCHANGED <<slang, blobs, programs, bi, spv_cross, err_sets, oob>>
    /\ UNCHANGED writerVars

\* to_glsl / to_hlsl5 / to_msl up to and including fix_bind_slots
FixBindSlots ==
    /\ pc = "fix_bind_slots"
    /\ compiler' = fix_bind_slots(compiler, SnippetType(blobs[bi]), IsVulkan(slang))
    /\ pc' = "compile"
    /\ trace' = Append(trace, Step("fix_bind_slots", TRUE))
    /\ UNCHANGED <<slang, blobs, programs, bi, src, spv_cross, err_sets, oob>>
    /\ UNCHANGED writerVars

\* Compile without the test of the compiled source ("if (!src.empty())"):
\* parse_reflection is called whatever the translator returned
Compile_reflect_always ==
    /\ pc = "compile"
    /\ LET c1 == IF Backend(slang) \in {"glsl", "hlsl"}
                 THEN fix_ub_matrix_force_colmajor(compiler) ELSE compiler
           c2 == IF Backend(slang) = "glsl" /\ ~IsVulkan(slang)
                 THEN flatten_uniform_blocks(c1) ELSE c1
       IN /\ compiler' = c2
          /\ src' = IF c2.compiles
                    THEN [src EXCEPT !.valid = TRUE, !.source_code = Backend(slang)]
                    ELSE src
          /\ pc' = "parse_reflection"
    /\ trace' = Append(trace, Step("compile", compiler.compiles))
    /\ UNCHANGED <<slang, blobs, programs, bi, spv_cross, err_sets, oob>>
    /\ UNCHANGED writerVars

\* the layout fixups of the backend and compiler.compile(); the compiler is a local
\* of to_glsl / to_hlsl5 / to_msl and is gone when that function returns
Compile ==
    /\ pc = "compile"
    /\ LET c1 == IF Backend(slang) \in {"glsl", "hlsl"}
                 THEN fix_ub_matrix_force_colmajor(compiler) ELSE compiler
           c2 == IF Backend(slang) = "glsl" /\ ~IsVulkan(slang)
                 THEN flatten_uniform_blocks(c1) ELSE c1
       IN IF c2.compiles
          THEN /\ compiler' = c2
               /\ src' = [src EXCEPT !.valid = TRUE, !.source_code = Backend(slang)]
               /\ pc' = "parse_reflection"
          ELSE /\ compiler' = NoCompiler
               /\ src' = src
               /\ pc' = "src_valid"
    /\ trace' = Append(trace, Step("compile", compiler.compiles))
    /\ UNCHANGED <<slang, blobs, programs, bi, spv_cross, err_sets, oob>>
    /\ UNCHANGED writerVars

\* res.refl = parse_reflection(compiler, is_vulkan), and the "0" to_msl appends.
\* A store outside the inputs/outputs array is undefined behaviour: the build
\* either aborts there or the store lands outside the array and the pass goes on.
ParseReflection ==
    /\ pc = "parse_reflection"
    /\ LET refl == parse_reflection(compiler, IsVulkan(slang))
           outside == {<<"inputs", i>> : i \in stores_outside(compiler.stage_inputs)}
                      \cup {<<"outputs", i>> : i \in stores_outside(compiler.stage_outputs)}
       IN /\ oob' = oob \cup outside
          /\ src' = [src EXCEPT !.refl =
                        IF Backend(slang) = "msl"
                        THEN [refl EXCEPT !.entry_point = @ \o "0"]
                        ELSE refl]
          /\ \E outcome \in IF outside = {} THEN {"defined"} ELSE {"stray", "abort"} :
                pc' = IF outcome = "abort" THEN "crashed" ELSE "src_valid"
    /\ compiler' = NoCompiler
    /\ trace' = Append(trace, Step("parse_reflection", TRUE))
    /\ UNCHANGED <<slang, blobs, programs, bi, spv_cross, err_sets>>
    /\ UNCHANGED writerVars

\* AppendSource without the return after a failed translation: the error is set
\* and the loop goes on with the next blob
AppendSourceNoReturn ==
    /\ pc = "src_valid"
    /\ IF src.valid
       THEN /\ spv_cross' = [spv_cross EXCEPT !.sources =
                Append(@, [src EXCEPT !.snippet_index = blobs[bi].snippet_index])]
            /\ pc' = "gather_unique_uniform_blocks"
            /\ bi' = bi
            /\ err_sets' = err_sets
            /\ trace' = Append(trace, Step("push_back", TRUE))
       ELSE /\ spv_cross' = [spv_cross EXCEPT !.error =
                error1(SnippetLine(blobs[bi].snippet_index),
                       "Failed to cross-compile to {}.", slang)]
            /\ pc' = "loop"
            /\ bi' = bi + 1
            /\ err_sets' = err_sets + 1
            /\ trace' = Append(trace, Step("translate", FALSE))
    /\ UNCHANGED <<slang, blobs, programs, compiler, src, oob>>
    /\ UNCHANGED writerVars

\* "if (src.valid) ... push_back ... else ... return spv_cross"
AppendSource ==
    /\ pc = "src_valid"
    /\ IF src.valid
       THEN /\ spv_cross' = [spv_cross EXCEPT !.sources =
                Append(@, [src EXCEPT !.snippet_index = blobs[bi].snippet_index])]
            /\ pc' = "gather_unique_uniform_blocks"
            /\ err_sets' = err_sets
            /\ trace' = Append(trace, Step("push_back", TRUE))
       ELSE /\ spv_cross' = [spv_cross EXCEPT !.error =
                error1(SnippetLine(blobs[bi].snippet_index),
                       "Failed to cross-compile to {}.", slang)]
            /\ pc' = "done"
            /\ err_sets' = err_sets + 1
            /\ trace' = Append(trace, Step("translate", FALSE))
    /\ UNCHANGED <<slang, blobs, programs, bi, compiler, src, oob>>
    /\ UNCHANGED writerVars

GatherUniqueUniformBlocks ==
    /\ pc = "gather_unique_uniform_blocks"
    /\ LET r == gather_unique_uniform_blocks(spv_cross)
       IN /\ spv_cross' = r.sc
          /\ pc' = IF r.ok THEN "gather_unique_images" ELSE "done"
          /\ err_sets' = IF r.ok THEN err_sets ELSE err_sets + 1
          /\ trace' = Append(trace, Step("gather_unique_uniform_blocks", r.ok))
    /\ UNCHANGED <<slang, blobs, programs, bi, compiler, src, oob>>
    /\ UNCHANGED writerVars

GatherUniqueImages ==
    /\ pc = "gather_unique_images"
    /\ LET r == gather_unique_images(spv_cross)
       IN /\ spv_cross' = r.sc
          /\ pc' = IF r.ok THEN "loop" ELSE "done"
          /\ bi' = IF r.ok THEN bi + 1 ELSE bi
          /\ err_sets' = IF r.ok THEN err_sets ELSE err_sets + 1
          /\ trace' = Append(trace, Step("gather_unique_images", r.ok))
    /\ UNCHANGED <<slang, blobs, programs, compiler, src, oob>>
    /\ UNCHANGED writerVars

ValidateLinking ==
    /\ pc = "validate_linking"
    /\ LET err == validate_linking(programs, spv_cross)
       IN /\ spv_cross' = IF err.valid THEN [spv_cross EXCEPT !.error = err]
                          ELSE spv_cross
          /\ err_sets' = IF err.valid THEN err_sets + 1 ELSE err_sets
          /\ trace' = Append(trace, Step("validate_linking", ~err.valid))
    /\ pc' = "done"
    /\ UNCHANGED <<slang, blobs, programs, bi, compiler, src, oob>>
    /\ UNCHANGED writerVars

Next ==
    \/ NextBlob
    \/ FixBindSlots
    \/ Compile
    \/ ParseReflection
    \/ AppendSource
    \/ GatherUniqueUniformBlocks
    \/ GatherUniqueImages
    \/ ValidateLinking


----------------------------------------------------------------------------
(* Inputs of a pass *)

\* decorations a resource carries before fix_bind_slots (they may collide)
PriorDecorations == {0, 5}

UbA == UbRes("vs_params", LayoutVec4, 5, 5)

UbAConflict == UbRes("vs_params", LayoutMvp, 5, 5)

UbB == UbRes("fs_params", LayoutVec4, 0, 0)

\* the uniform-block declarations of one shader: no name twice in a shader
UbLists == {<<>>, <<UbA>>, <<UbAConflict>>, <<UbB>>,
            <<UbA, UbB>>, <<UbAConflict, UbB>>, <<UbB, UbA>>, <<UbB, UbAConflict>>}

ImgT == ImgRes("tex", "Dim2D", FALSE, "Float", 5, 5)

ImgTCube == ImgRes("tex", "DimCube", FALSE, "Float", 5, 5)

ImgTUint == ImgRes("tex", "Dim2D", FALSE, "UInt", 0, 0)

ImgU == ImgRes("lut", "Dim2D", TRUE, "Float", 0, 0)

ImgLists == {<<>>, <<ImgT>>, <<ImgTCube>>, <<ImgTUint>>, <<ImgU>>,
             <<ImgT, ImgU>>, <<ImgU, ImgT>>, <<ImgU, ImgTCube>>}

\* vertex outputs / fragment inputs of the linking inputs
IoLists == {<<>>, << IoRes("color", 0) >>, << IoRes("uv", 0) >>,
            << IoRes("color", 0), IoRes("uv", 1) >>}

VsInputs == << IoRes("position", 0) >>

FsOutputs == << IoRes("frag_color", 0) >>

\* stage of the i-th blob where the input family fixes it
StageAt(i) == IF i % 2 = 1 THEN "Vertex" ELSE "Fragment"

Shader(model, ubs, imgs, io, compiles) ==
    IF model = "Vertex"
    THEN Module(model, ubs, imgs, VsInputs, io, compiles)
    ELSE Module(model, ubs, imgs, io, FsOutputs, compiles)

\* spirv.blobs built from the modules ms: blob i comes from snippet i
Blobs(ms) == [i \in DOMAIN ms |-> [snippet_index |-> i, bytecode |-> ms[i]]]

\* the programs that can be declared over blobs: a vertex and a fragment snippet
ProgramsOver(bs) ==
    {[vs_name |-> SnippetName(bs[v].snippet_index),
      fs_name |-> SnippetName(bs[f].snippet_index),
      line_index |-> 100 + 10 * v + f] :
        v \in {i \in DOMAIN bs : bs[i].bytecode.model = "Vertex"},
        f \in {i \in DOMAIN bs : bs[i].bytecode.model = "Fragment"}}

\* inp.programs: up to two programs, in the order of the map
ProgramLists(bs) ==
    {ps \in SeqsUpTo(ProgramsOver(bs), 2) : Len(ps) < 2 \/ ps[1] # ps[2]}

PassStart ==
    /\ bi = 1
    /\ pc = "loop"
    /\ compiler = NoCompiler
    /\ src = spirvcross_source_t
    /\ spv_cross = spirvcross_t
    /\ err_sets = 0
    /\ oob = {}
    /\ trace = <<>>

WriterIdle ==
    /\ wr_in = <<>>
    /\ wr_ndebug = FALSE
    /\ wr_pc = "idle"
    /\ stream = <<>>

\* shaders that differ in their uniform blocks
InitUniformBlocks ==
    /\ slang \in {"GLSL330", "WGPU"}
    /\ \E n \in 1..MaxBlobs : \E ubs \in [1..n -> UbLists] :
          blobs = Blobs([i \in 1..n |-> Shader(StageAt(i), ubs[i], <<>>, <<>>, TRUE)])
    /\ programs = <<>>

\* shaders that differ in their images
InitImages ==
    /\ slang = "HLSL5"
    /\ \E n \in 1..MaxBlobs : \E imgs \in [1..n -> ImgLists] :
          blobs = Blobs([i \in 1..n |-> Shader(StageAt(i), <<>>, imgs[i], <<>>, TRUE)])
    /\ programs = <<>>

\* shaders that differ in their stage interface, and the declared programs
InitLinking ==
    /\ slang = "METAL_MACOS"
    /\ \E n \in 1..MaxBlobs : \E io \in [1..n -> IoLists] :
       \E first \in {"Vertex", "Fragment"} :
          blobs = Blobs([i \in 1..n |->
                     Shader(IF first = "Vertex" THEN StageAt(i) ELSE StageAt(i + 1),
                            <<>>, <<>>, io[i], TRUE)])
    /\ programs \in ProgramLists(blobs)

\* shaders in which every kind of failure can occur
MixedShaders ==
    {Shader("Vertex", <<UbA>>, <<ImgT>>, << IoRes("color", 0) >>, TRUE),
     Shader("Vertex", <<UbB>>, <<>>, << IoRes("color", 0) >>, FALSE),
     Shader("Fragment", <<UbA>>, <<ImgT>>, << IoRes("color", 0) >>, TRUE),
     Shader("Fragment", <<UbAConflict>>, <<ImgT>>, << IoRes("uv", 0) >>, TRUE),
     Shader("Fragment", <<UbA>>, <<ImgTCube>>, << IoRes("uv", 0) >>, TRUE)}

InitMixed ==
    /\ slang \in {"GLSL300ES", "METAL_SIM", SlangOther}
    /\ \E n \in 1..MaxBlobs : \E ms \in [1..n -> MixedShaders] : blobs = Blobs(ms)
    /\ programs \in ProgramLists(blobs)

Init ==
    /\ \/ InitUniformBlocks
       \/ InitImages
       \/ InitLinking
       \/ InitMixed
    /\ PassStart
    /\ WriterIdle

Spec == Init /\ [][Next]_vars


----------------------------------------------------------------------------
(* Vocabulary of the properties of a pass *)

Sources == spv_cross.sources

Error == spv_cross.error

Done == pc = "done"

\* positions <<source, declaration>> of all uniform blocks / images of the result
UbPositions ==
    UNION {{<<s, j>> : j \in DOMAIN Sources[s].refl.uniform_blocks} : s \in DOMAIN Sources}

ImgPositions ==
    UNION {{<<s, j>> : j \in DOMAIN Sources[s].refl.images} : s \in DOMAIN Sources}

UbAt(p) == Sources[p[1]].refl.uniform_blocks[p[2]]

ImgAt(p) == Sources[p[1]].refl.images[p[2]]

\* source order, then declaration order
Before(p, q) == p[1] < q[1] \/ (p[1] = q[1] /\ p[2] < q[2])

First(ps) == CHOOSE p \in ps : \A q \in ps : p = q \/ Before(p, q)

\* the pool entries with a given name
UbEntries(name) ==
    {i \in DOMAIN spv_cross.unique_uniform_blocks :
        spv_cross.unique_uniform_blocks[i].name = name}

ImgEntries(name) ==
    {i \in DOMAIN spv_cross.unique_images : spv_cross.unique_images[i].name = name}

\* blocks / images that differ in structure from a pool entry of their name
UbClashes ==
    {p \in UbPositions : \E i \in UbEntries(UbAt(p).name) :
        ~uniform_block_equals(UbAt(p), spv_cross.unique_uniform_blocks[i])}

ImgClashes ==
    {p \in ImgPositions : \E i \in ImgEntries(ImgAt(p).name) :
        ~image_equals(ImgAt(p), spv_cross.unique_images[i])}

UbConflictMsg == "conflicting uniform block definitions found for '{}'"

ImgConflictMsg == "conflicting texture definitions found for '{}'"

MismatchMsg ==
    "outputs of vs '{}' don't match inputs of fs '{}' for attr #{} (vs={},fs={})"

TranslateMsg == "Failed to cross-compile to {}."

\* the dedup step for uniform blocks (resp. images) has covered every source
UbGathered == pc \in {"gather_unique_images", "loop", "validate_linking", "done"}

ImgGathered ==
    /\ pc \in {"loop", "validate_linking", "done"}
    /\ ~(Error.valid /\ Error.msg = UbConflictMsg)

----------------------------------------------------------------------------
(* C1: deduplication by name within one pass.  A uniform block (image) that  *)
(* carries a unique_index carries the index of the pool entry of its name    *)
(* and is structurally equal to it; once the dedup step has covered the      *)
(* sources, a block (image) that differs from the pool entry of its name     *)
(* means the pass has failed with the conflict error naming the first such   *)
(* resource; and after a pass without error any two blocks (images) sharing  *)
(* a name share the unique_index and are structurally equal.                 *)

C1_IndexIsEqualEntry ==
    /\ \A p \in UbPositions : UbAt(p).unique_index >= 0 =>
          /\ UbEntries(UbAt(p).name) = {UbAt(p).unique_index + 1}
          /\ uniform_block_equals(UbAt(p),
                spv_cross.unique_uniform_blocks[UbAt(p).unique_index + 1])
    /\ \A p \in ImgPositions : ImgAt(p).unique_index >= 0 =>
          /\ ImgEntries(ImgAt(p).name) = {ImgAt(p).unique_index + 1}
          /\ image_equals(ImgAt(p), spv_cross.unique_images[ImgAt(p).unique_index + 1])

C1_ConflictFails ==
    /\ (UbGathered /\ UbClashes # {}) =>
          /\ Done /\ Error.valid /\ Error.msg = UbConflictMsg
          /\ Error.name1 = UbAt(First(UbClashes)).name
    /\ (ImgGathered /\ ImgClashes # {}) =>
          /\ Done /\ Error.valid /\ Error.msg = ImgConflictMsg
          /\ Error.name1 = ImgAt(First(ImgClashes)).name
    /\ (Error.valid /\ Error.msg = UbConflictMsg) => UbClashes # {}
    /\ (Error.valid /\ Error.msg = ImgConflictMsg) => ImgClashes # {}

C1_SameNameSameIndex ==
    (Done /\ ~Error.valid) =>
        /\ \A p, q \in UbPositions : UbAt(p).name = UbAt(q).name =>
              /\ UbAt(p).unique_index = UbAt(q).unique_index
              /\ UbAt(p).unique_index >= 0
              /\ uniform_block_equals(UbAt(p), UbAt(q))
        /\ \A p, q \in ImgPositions : ImgAt(p).name = ImgAt(q).name =>
              /\ ImgAt(p).unique_index = ImgAt(q).unique_index
              /\ ImgAt(p).unique_index >= 0
              /\ image_equals(ImgAt(p), ImgAt(q))

C1_Dedup == C1_IndexIsEqualEntry /\ C1_ConflictFails /\ C1_SameNameSameIndex

\* a pass has ended without error and a uniform block and an image are each
\* shared by two sources
C1_Witness ==
    /\ Done /\ ~Error.valid
    /\ \E p, q \in UbPositions : p[1] # q[1] /\ UbAt(p).name = UbAt(q).name
    /\ \E p, q \in ImgPositions : p[1] # q[1] /\ ImgAt(p).name = ImgAt(q).name


----------------------------------------------------------------------------
(* C2: interface validation.  After a pass that returns without error, for   *)
(* every declared program and every slot i in [0, NUM) the vertex source's   *)
(* output at i is attribute-equal to the fragment source's input at i; and   *)
(* when validate_linking has run on programs of which one has a differing    *)
(* slot, the pass returns the error of the first such program and slot: its  *)
(* message holds both shader names, the slot index and both attribute names. *)

\* the translated source of the snippet a program names
SourceOf(name) == CHOOSE x \in Range(Sources) : SnippetName(x.snippet_index) = name

VsOut(prog, i) == SourceOf(prog.vs_name).refl.outputs[i]

FsIn(prog, i) == SourceOf(prog.fs_name).refl.inputs[i]

Slots == 0..(NUM - 1)

\* <<program position, slot>> of every differing slot of a declared program
Mismatches ==
    {m \in (DOMAIN programs) \X Slots :
        ~attr_equals(VsOut(programs[m[1]], m[2]), FsIn(programs[m[1]], m[2]))}

\* validate_linking was reached: every blob was translated and deduplicated
Validated == Done /\ trace # <<>> /\ trace[Len(trace)].step = "validate_linking"

C2_Linking ==
    /\ (Done /\ ~Error.valid) =>
          \A k \in DOMAIN programs : \A i \in Slots :
             attr_equals(VsOut(programs[k], i), FsIn(programs[k], i))
    /\ (Validated /\ Mismatches # {}) =>
          LET m == First(Mismatches)
              prog == programs[m[1]]
          IN /\ Error.valid
             /\ Error.msg = MismatchMsg
             /\ Error.line_index = prog.line_index
             /\ Error.name1 = prog.vs_name
             /\ Error.name2 = prog.fs_name
             /\ Error.attr = m[2]
             /\ Error.attr1 = VsOut(prog, m[2]).name
             /\ Error.attr2 = FsIn(prog, m[2]).name
    /\ (Error.valid /\ Error.msg = MismatchMsg) => (Validated /\ Mismatches # {})

\* validate_linking has reported the second of two programs, at a slot other
\* than the first, the first program being consistent
C2_Witness ==
    /\ Validated /\ Error.valid /\ Error.msg = MismatchMsg
    /\ Len(programs) = 2
    /\ Error.name2 = programs[2].fs_name /\ Error.name2 # programs[1].fs_name
    /\ Error.attr = 1

----------------------------------------------------------------------------
(* C3: a pass is fail-fast and all-or-nothing.  The error slot is assigned   *)
(* at most once, and exactly when a step failed; after a failed step nothing *)
(* else is translated, deduplicated or validated and the pass has returned;  *)
(* the returned error is valid exactly if the input holds a translation      *)
(* failure, a uniform-block or image conflict or an interface mismatch; and  *)
(* without error every blob has its source, in order, with every block and   *)
(* image carrying a unique_index >= 0.                                       *)

\* what the translator and the reflection make of a blob, from the input alone
ReflOf(blob) ==
    parse_reflection(fix_bind_slots(blob.bytecode, SnippetType(blob), IsVulkan(slang)),
                     IsVulkan(slang))

BlobOf(name) == CHOOSE b \in Range(blobs) : SnippetName(b.snippet_index) = name

InputTranslationFailure ==
    \E k \in DOMAIN blobs : Backend(slang) = "none" \/ ~blobs[k].bytecode.compiles

InputUbConflict ==
    \E a, b \in DOMAIN blobs :
       \E x \in Range(ReflOf(blobs[a]).uniform_blocks) :
       \E y \in Range(ReflOf(blobs[b]).uniform_blocks) :
          x.name = y.name /\ ~uniform_block_equals(x, y)

InputImgConflict ==
    \E a, b \in DOMAIN blobs :
       \E x \in Range(ReflOf(blobs[a]).images) :
       \E y \in Range(ReflOf(blobs[b]).images) :
          x.name = y.name /\ ~image_equals(x, y)

InputMismatch ==
    \E k \in DOMAIN programs : \E i \in Slots :
       ~attr_equals(ReflOf(BlobOf(programs[k].vs_name)).outputs[i],
                    ReflOf(BlobOf(programs[k].fs_name)).inputs[i])

\* the steps that do work of the pass (all but the report of a failed translation)
WorkSteps == {"blob", "fix_bind_slots", "compile", "parse_reflection", "push_back",
              "gather_unique_uniform_blocks", "gather_unique_images",
              "validate_linking"}

C3_FailFast ==
    /\ err_sets <= 1
    /\ Error.valid <=> err_sets = 1
    /\ Error.valid <=> \E k \in DOMAIN trace :
                          ~trace[k].ok /\ trace[k].step # "compile"
    /\ Error.valid => Done
    /\ \A k \in DOMAIN trace : ~trace[k].ok =>
          \A m \in DOMAIN trace : m > k =>
             /\ trace[m].step \notin WorkSteps
             /\ trace[m].blob = trace[k].blob
    /\ (\E k \in DOMAIN trace : ~trace[k].ok) =>
          (Done \/ (pc = "src_valid" /\ ~src.valid))
    /\ Done =>
          (Error.valid <=> \/ InputTranslationFailure
                           \/ InputUbConflict
                           \/ InputImgConflict
                           \/ InputMismatch)
    /\ (Done /\ ~Error.valid) =>
          /\ Len(Sources) = Len(blobs)
          /\ \A k \in DOMAIN blobs : Sources[k].snippet_index = blobs[k].snippet_index
          /\ \A p \in UbPositions : UbAt(p).unique_index >= 0
          /\ \A p \in ImgPositions : ImgAt(p).unique_index >= 0

\* a pass has failed on a blob that is not the last one, the blobs after it
\* left untranslated
C3_Witness ==
    /\ Done /\ Error.valid /\ err_sets = 1
    /\ bi < Len(blobs)
    /\ Len(Sources) >= 1
    /\ Len(Sources) < Len(blobs)

----------------------------------------------------------------------------
(* C4: unique_index values follow first-seen order from 0.  In every state   *)
(* the pool entry at position i carries unique_index i, the pool lists the   *)
(* distinct names in the order source-then-declaration in which they were    *)
(* first met, and a block (image) that carries an index carries the rank of  *)
(* its name in that order, as does every other occurrence of the name.       *)

UbFirst(name) == First({p \in UbPositions : UbAt(p).name = name})

ImgFirst(name) == First({p \in ImgPositions : ImgAt(p).name = name})

\* number of distinct names first met before the given name
UbRank(name) ==
    Cardinality({n \in {UbAt(p).name : p \in UbPositions} :
                    Before(UbFirst(n), UbFirst(name))})

ImgRank(name) ==
    Cardinality({n \in {ImgAt(p).name : p \in ImgPositions} :
                    Before(ImgFirst(n), ImgFirst(name))})

C4_FirstSeenOrder ==
    /\ \A i \in DOMAIN spv_cross.unique_uniform_blocks :
          /\ spv_cross.unique_uniform_blocks[i].unique_index = i - 1
          /\ UbRank(spv_cross.unique_uniform_blocks[i].name) = i - 1
    /\ \A i \in DOMAIN spv_cross.unique_images :
          /\ spv_cross.unique_images[i].unique_index = i - 1
          /\ ImgRank(spv_cross.unique_images[i].name) = i - 1
    /\ \A p \in UbPositions :
          /\ UbAt(p).unique_index \in {-1, UbRank(UbAt(p).name)}
          /\ (UbGathered /\ ~Error.valid) => UbAt(p).unique_index >= 0
    /\ \A p \in ImgPositions :
          /\ ImgAt(p).unique_index \in {-1, ImgRank(ImgAt(p).name)}
          /\ (ImgGathered /\ ~Error.valid) => ImgAt(p).unique_index >= 0

\* a later source's first block carries index 1: its name was the second one
\* met, in an earlier source
C4_Witness ==
    \E p \in UbPositions :
        /\ p[1] > 1 /\ p[2] = 1
        /\ UbAt(p).unique_index = 1
        /\ Len(spv_cross.unique_uniform_blocks) = 2


----------------------------------------------------------------------------
(* One shader at a time: every target, both stages, any number of uniform   *)
(* blocks and images up to the bounds, any prior decorations, and location  *)
(* decorations inside and outside [0, NUM)                                  *)

UbName(i) ==
    CASE i = 1 -> "ub1" [] i = 2 -> "ub2" [] i = 3 -> "ub3" [] i = 4 -> "ub4"
      [] i = 5 -> "ub5" [] i = 6 -> "ub6" [] i = 7 -> "ub7" [] OTHER -> "ub8"

UbLayout(i) ==
    CASE i % 3 = 1 -> LayoutVec4 [] i % 3 = 2 -> LayoutMvp [] OTHER -> LayoutMisc

ImgName(j) == CASE j = 1 -> "tex1" [] j = 2 -> "tex2" [] j = 3 -> "tex3" [] OTHER -> "tex4"

ImgShape(j) ==
    CASE j % 4 = 1 -> [dim |-> "Dim2D", arrayed |-> FALSE, sampled |-> "Float"]
      [] j % 4 = 2 -> [dim |-> "Dim2D", arrayed |-> TRUE, sampled |-> "Int"]
      [] j % 4 = 3 -> [dim |-> "DimCube", arrayed |-> TRUE, sampled |-> "UShort"]
      [] OTHER -> [dim |-> "Dim3D", arrayed |-> FALSE, sampled |-> "Float"]

\* n uniform buffers / images, all carrying the same prior set and binding
UbResources(n, prior) == [i \in 1..n |-> UbRes(UbName(i), UbLayout(i), prior, prior)]

ImgResources(n, prior) ==
    [j \in 1..n |-> ImgRes(ImgName(j), ImgShape(j).dim, ImgShape(j).arrayed,
                           ImgShape(j).sampled, prior, prior)]

\* stage inputs as the translator may report them: Location is a uint32_t
\* decoration that nothing bounds by attr_t::NUM
ShaderInputs ==
    {<<>>,
     << IoRes("position", 0) >>,
     << IoRes("position", 0), IoRes("texcoord", 1) >>,
     << IoRes("position", 1), IoRes("normal", 1) >>,
     << IoRes("position", NUM - 1) >>,
     << IoRes("position", NUM) >>,
     << IoRes("position", 0), IoRes("texcoord", NUM + 3) >>}

ShaderOutputs ==
    {<<>>,
     << IoRes("uv", 0), IoRes("color", 2) >>,
     << IoRes("uv", NUM) >>}

InitShader ==
    /\ slang \in Slangs \cup {SlangOther}
    /\ \E model \in {"Vertex", "Fragment"} :
       \E nub \in 0..MaxUB : \E nimg \in 0..MaxImg : \E prior \in PriorDecorations :
       \E ins \in ShaderInputs : \E outs \in ShaderOutputs : \E compiles \in BOOLEAN :
          blobs = Blobs(<< Module(model, UbResources(nub, prior), ImgResources(nimg, prior),
                                 ins, outs, compiles) >>)
    /\ programs = <<>>
    /\ PassStart
    /\ WriterIdle

SpecShader == InitShader /\ [][Next]_vars

\* fix_bind_slots has run on the compiler of the current blob
SlotsFixed == compiler # NoCompiler /\ pc # "fix_bind_slots"

\* parse_reflection has just filled the reflection of the local source
Reflected == pc = "src_valid" /\ src.valid

CurrentType == SnippetType(blobs[bi])

----------------------------------------------------------------------------
(* C5: fix_bind_slots overwrites every decoration.  After it the i-th        *)
(* uniform block (from 0) has set 0 and binding start + i, start being 4     *)
(* for a fragment shader on the Vulkan-style target (WGPU) and 0 otherwise,  *)
(* and the j-th image (from 0) has binding j in set 1 for a vertex shader    *)
(* and set 2 for a fragment shader, on every target, whatever the            *)
(* decorations were before.                                                  *)

----------------------------------------------------------------------------
(* C6: on the Vulkan-style target the slot parse_reflection reports for a   *)
(* uniform block is its declaration-order index within its shader, for      *)
(* either stage and any number of blocks.                                   *)

C6_ReflectedSlotIsIndex ==
    (Reflected /\ slang = "WGPU" /\ oob = {}) =>
        \A i \in DOMAIN src.refl.uniform_blocks :
            src.refl.uniform_blocks[i].slot = i - 1

----------------------------------------------------------------------------
(* C7: on the Vulkan-style target the set-0 bindings of vertex and fragment *)
(* uniform blocks never collide: vertex blocks occupy bindings 0..3 only    *)
(* and fragment blocks bindings 4..7 only, for any number of blocks.        *)

C7_BindingRanges ==
    (SlotsFixed /\ slang = "WGPU") =>
        \A i \in DOMAIN compiler.uniform_buffers :
            /\ compiler.uniform_buffers[i].set = 0
            /\ CurrentType = "VS" => compiler.uniform_buffers[i].binding \in 0..3
            /\ CurrentType = "FS" => compiler.uniform_buffers[i].binding \in 4..7

----------------------------------------------------------------------------
(* C9: every entry of the inputs and outputs arrays of a reflection record  *)
(* is unused or has the slot of its index, and parse_reflection never       *)
(* stores outside the arrays, whatever Location the translator reports.     *)

C9_AttrSlotsInArray ==
    /\ oob = {}
    /\ Reflected =>
          \A i \in 0..(NUM - 1) :
             /\ src.refl.inputs[i].slot \in {-1, i}
             /\ src.refl.outputs[i].slot \in {-1, i}


----------------------------------------------------------------------------
(* The binary reflection writer.  A FILE* is the sequence of bytes written; *)
(* a failed assert aborts the process.                                      *)

\* std::string::data() of the strings of the model: their bytes (ASCII)
StrBytes(name) ==
    CASE name = "main" -> << 109, 97, 105, 110 >>
      [] name = "main0" -> << 109, 97, 105, 110, 48 >>
      [] name = "position" -> << 112, 111, 115, 105, 116, 105, 111, 110 >>
      [] name = "texcoord" -> << 116, 101, 120, 99, 111, 111, 114, 100 >>
      [] name = "normal" -> << 110, 111, 114, 109, 97, 108 >>
      [] name = "uv" -> << 117, 118 >>
      [] name = "color" -> << 99, 111, 108, 111, 114 >>
      [] name = "frag_color" -> << 102, 114, 97, 103, 95, 99, 111, 108, 111, 114 >>
      [] name = "TEXCOORD" -> << 84, 69, 88, 67, 79, 79, 82, 68 >>
      [] name = "vs_params" -> << 118, 115, 95, 112, 97, 114, 97, 109, 115 >>
      [] name = "fs_params" -> << 102, 115, 95, 112, 97, 114, 97, 109, 115 >>
      [] name = "tex" -> << 116, 101, 120 >>
      [] name = "lut" -> << 108, 117, 116 >>
      [] name = "mvp" -> << 109, 118, 112 >>
      [] name = "tint" -> << 116, 105, 110, 116 >>
      [] name = "scale" -> << 115, 99, 97, 108, 101 >>
      [] name = "rot" -> << 114, 111, 116 >>
      [] name = "bones" -> << 98, 111, 110, 101, 115 >>
      [] name = "ub1" -> << 117, 98, 49 >>
      [] name = "ub2" -> << 117, 98, 50 >>
      [] name = "ub3" -> << 117, 98, 51 >>
      [] name = "ub4" -> << 117, 98, 52 >>
      [] name = "ub5" -> << 117, 98, 53 >>
      [] name = "ub6" -> << 117, 98, 54 >>
      [] name = "ub7" -> << 117, 98, 55 >>
      [] name = "ub8" -> << 117, 98, 56 >>
      [] name = "tex1" -> << 116, 101, 120, 49 >>
      [] name = "tex2" -> << 116, 101, 120, 50 >>
      [] name = "tex3" -> << 116, 101, 120, 51 >>
      [] name = "tex4" -> << 116, 101, 120, 52 >>
      [] OTHER -> <<>>

\* What a write function appends to its FILE*: the bytes, and whether an
\* assert aborted the process on the way.
Written(bytes) == [aborted |-> FALSE, bytes |-> bytes]

Aborted == [aborted |-> TRUE, bytes |-> <<>>]

\* two writes one after the other: nothing follows an abort
Then(a, b) ==
    IF a.aborted THEN a
    ELSE [aborted |-> b.aborted, bytes |-> a.bytes \o b.bytes]

\* the object representation of a uint16_t on the little-endian hosts the tool
\* is built for
u16_bytes(val) == << (val % U16) % U8, (val % U16) \div U8 >>

write_byte(byte) == Written(<< byte % U8 >>)

write_u16(val) == Written(u16_bytes(val))

\* str is the byte sequence of the string; ndebug: the assert is compiled out
write_string(str, ndebug) ==
    IF ~ndebug /\ ~(Len(str) < UINT16_MAX) THEN Aborted
    ELSE Then(write_u16(Len(str) % U16), Written(str))

write_chars(chars) == Written(chars)

\* the values of the enums of shdc.h as the writer casts them to a byte
stage_byte(stage) == CASE stage = "VS" -> 1 [] stage = "FS" -> 2 [] OTHER -> 0

uniform_type_byte(type) ==
    CASE type = "FLOAT" -> 1 [] type = "FLOAT2" -> 2 [] type = "FLOAT3" -> 3
      [] type = "FLOAT4" -> 4 [] type = "MAT4" -> 5 [] OTHER -> 0

image_type_byte(type) ==
    CASE type = "IMAGE_TYPE_2D" -> 1 [] type = "IMAGE_TYPE_CUBE" -> 2
      [] type = "IMAGE_TYPE_3D" -> 3 [] type = "IMAGE_TYPE_ARRAY" -> 4 [] OTHER -> 0

image_basetype_byte(base_type) ==
    CASE base_type = "IMAGE_BASETYPE_FLOAT" -> 1 [] base_type = "IMAGE_BASETYPE_SINT" -> 2
      [] base_type = "IMAGE_BASETYPE_UINT" -> 3 [] OTHER -> 0

write_attr(attr, ndebug) ==
    Then(Then(Then(write_string(StrBytes(attr.name), ndebug),
                   write_u16(attr.slot)),
              write_string(StrBytes(attr.sem_name), ndebug)),
         write_byte(attr.sem_index))

write_uniform(uniform, ndebug) ==
    Then(Then(Then(write_string(StrBytes(uniform.name), ndebug),
                   write_byte(uniform_type_byte(uniform.type))),
              write_u16(uniform.array_count)),
         write_u16(uniform.offset))

RECURSIVE write_uniforms(_, _, _)
write_uniforms(uniforms, k, ndebug) ==
    IF k > Len(uniforms) THEN Written(<<>>)
    ELSE Then(write_uniform(uniforms[k], ndebug), write_uniforms(uniforms, k + 1, ndebug))

write_uniform_block(ub, ndebug) ==
    Then(write_u16(Len(ub.uniforms)), write_uniforms(ub.uniforms, 1, ndebug))

write_image(img, ndebug) ==
    Then(Then(Then(write_string(StrBytes(img.name), ndebug),
                   write_u16(img.slot)),
              write_byte(image_type_byte(img.type))),
         write_byte(image_basetype_byte(img.base_type)))

\* "for (attr: arr) if (attr.slot >= 0) ++count"
count_attrs(arr) == Cardinality({i \in DOMAIN arr : arr[i].slot >= 0})

\* "for (attr: arr) if (attr.slot >= 0) write_attr(stream, attr)" from index i on
RECURSIVE write_attrs(_, _, _)
write_attrs(arr, i, ndebug) ==
    IF i >= NUM THEN Written(<<>>)
    ELSE Then(IF arr[i].slot >= 0 THEN write_attr(arr[i], ndebug) ELSE Written(<<>>),
              write_attrs(arr, i + 1, ndebug))

RECURSIVE write_uniform_blocks(_, _, _)
write_uniform_blocks(ubs, k, ndebug) ==
    IF k > Len(ubs) THEN Written(<<>>)
    ELSE Then(write_uniform_block(ubs[k], ndebug), write_uniform_blocks(ubs, k + 1, ndebug))

RECURSIVE write_images(_, _, _)
write_images(imgs, k, ndebug) ==
    IF k > Len(imgs) THEN Written(<<>>)
    ELSE Then(write_image(imgs[k], ndebug), write_images(imgs, k + 1, ndebug))

\* the header of the stream: magic "SHDC", version, stage, entry point
write_header(refl, ndebug) ==
    Then(Then(Then(write_chars(<< 83, 72, 68, 67 >>),
                   write_u16(BINARY_FORMAT_VERSION)),
              write_byte(stage_byte(refl.stage))),
         write_string(StrBytes(refl.entry_point), ndebug))

write_binary_reflection_info(refl, ndebug) ==
    Then(write_header(refl, ndebug),
    Then(write_u16(count_attrs(refl.inputs)),
    Then(write_attrs(refl.inputs, 0, ndebug),
    Then(write_u16(count_attrs(refl.outputs)),
    Then(write_attrs(refl.outputs, 0, ndebug),
    Then(write_u16(Len(refl.uniform_blocks)),
    Then(write_uniform_blocks(refl.uniform_blocks, 1, ndebug),
    Then(write_u16(Len(refl.images)),
         write_images(refl.images, 1, ndebug)))))))))

\* write_string called on its own, on a fresh stream
WriteString ==
    /\ wr_pc = "ready"
    /\ wr_in.kind = "string"
    /\ LET w == write_string(wr_in.str, wr_ndebug)
       IN /\ stream' = w.bytes
          /\ wr_pc' = IF w.aborted THEN "aborted" ELSE "written"
    /\ UNCHANGED <<wr_in, wr_ndebug>>
    /\ UNCHANGED passVars

WriteBinaryReflectionInfo ==
    /\ wr_pc = "ready"
    /\ wr_in.kind = "refl"
    /\ LET w == write_binary_reflection_info(wr_in.refl, wr_ndebug)
       IN /\ stream' = w.bytes
          /\ wr_pc' = IF w.aborted THEN "aborted" ELSE "written"
    /\ UNCHANGED <<wr_in, wr_ndebug>>
    /\ UNCHANGED passVars

NextWriter ==
    \/ WriteString
    \/ WriteBinaryReflectionInfo

\* the reflection records handed to the writer: those the pass produces for
\* one shader, deduplicated
WriterShaders ==
    {Shader(model, ubs, imgs, io, TRUE) :
        model \in {"Vertex", "Fragment"}, ubs \in UbLists, imgs \in ImgLists,
        io \in IoLists}

\* what a pass over the single shader m leaves in sources[1].refl
ReflAfterPass(m, is_vulkan, msl) ==
    LET refl == parse_reflection(
                    fix_bind_slots(m, IF m.model = "Vertex" THEN "VS" ELSE "FS", is_vulkan),
                    is_vulkan)
        src1 == [spirvcross_source_t EXCEPT
                    !.valid = TRUE,
                    !.refl = IF msl THEN [refl EXCEPT !.entry_point = @ \o "0"] ELSE refl]
        sc == gather_unique_images(
                 gather_unique_uniform_blocks(
                     [spirvcross_t EXCEPT !.sources = << src1 >>]).sc).sc
    IN sc.sources[1].refl

WriterRecords ==
    {ReflAfterPass(m, FALSE, msl) : m \in WriterShaders, msl \in BOOLEAN}

\* the byte of the strings handed to write_string on its own
FillByte == 120

\* lengths around the 16-bit limit, and short ones
StringLengths == {0, 1, 2, 3, UINT16_MAX - 1, UINT16_MAX, UINT16_MAX + 1}

WriterStrings == {[i \in 1..n |-> FillByte] : n \in StringLengths}

PassIdle ==
    /\ slang = "GLSL330"
    /\ blobs = <<>>
    /\ programs = <<>>
    /\ bi = 1
    /\ pc = "idle"
    /\ compiler = NoCompiler
    /\ src = spirvcross_source_t
    /\ spv_cross = spirvcross_t
    /\ err_sets = 0
    /\ oob = {}
    /\ trace = <<>>

InitWriter ==
    /\ PassIdle
    /\ wr_ndebug \in BOOLEAN
    /\ wr_in \in {[kind |-> "refl", refl |-> r, str |-> <<>>] : r \in WriterRecords}
                 \cup {[kind |-> "string", refl |-> spirvcross_refl_t, str |-> x] :
                          x \in WriterStrings}
    /\ wr_pc = "ready"
    /\ stream = <<>>

SpecWriter == InitWriter /\ [][NextWriter]_vars

----------------------------------------------------------------------------
(* C8: the byte stream of a reflection record determines the record: a      *)
(* record whose stream equals the one written is equal to it field for      *)
(* field, so the stream can be parsed back to the record; and the input     *)
(* count that follows the header is the number of attributes with a slot    *)
(* >= 0.                                                                    *)

\* the length of the header of the stream of refl
HeaderLen(refl) == Len(write_header(refl, TRUE).bytes)

C8_StreamDeterminesRecord ==
    (wr_pc = "written" /\ wr_in.kind = "refl") =>
        /\ \A r \in WriterRecords :
              write_binary_reflection_info(r, wr_ndebug).bytes = stream
                  => r = wr_in.refl
        /\ LET h == HeaderLen(wr_in.refl)
           IN stream[h + 1] + U8 * stream[h + 2]
                 = Cardinality({i \in DOMAIN wr_in.refl.inputs :
                                   wr_in.refl.inputs[i].slot >= 0})

----------------------------------------------------------------------------
(* C10: write_string accepts exactly the strings whose length is below      *)
(* 65536, and writes for each of them the length as a u16 followed by the   *)
(* bytes of the string.                                                     *)

C10_AcceptsLengthsBelow65536 ==
    (wr_pc \in {"written", "aborted"} /\ wr_in.kind = "string" /\ ~wr_ndebug) =>
        /\ wr_pc = "written" <=> Len(wr_in.str) < 65536
        /\ wr_pc = "written" =>
              /\ Len(stream) = 2 + Len(wr_in.str)
              /\ stream[1] + U8 * stream[2] = Len(wr_in.str)
              /\ \A i \in DOMAIN wr_in.str : stream[2 + i] = wr_in.str[i]


----------------------------------------------------------------------------
(* Passes over shaders that differ in their entry points *)

MaxEntryBlobs == 2

\* an entry of compiler.get_entry_points_and_stages()
EntryPoint(name, execution_model) == [name |-> name, execution_model |-> execution_model]

OtherModel(model) == IF model = "Vertex" THEN "Fragment" ELSE "Vertex"

\* the entry points of a module whose execution model is model: the module
\* always has an entry point of its own execution model, possibly after entry
\* points of another model and before further ones of the same model
EntryPointLists(model) ==
    {<< EntryPoint("main", model) >>,
     << EntryPoint("vs_main", model) >>,
     << EntryPoint("other", OtherModel(model)), EntryPoint("main", model) >>,
     << EntryPoint("main0", model), EntryPoint("main", model) >>}

EntryShaders ==
    {[Shader(model, <<UbA>>, <<ImgT>>, << IoRes("color", 0) >>, compiles)
         EXCEPT !.entry_points = eps] :
        model \in {"Vertex", "Fragment"}, compiles \in BOOLEAN,
        eps \in EntryPointLists("Vertex") \cup EntryPointLists("Fragment")}

InitEntry ==
    /\ slang \in Slangs \cup {SlangOther}
    /\ \E n \in 1..MaxEntryBlobs :
       \E ms \in [1..n -> {m \in EntryShaders :
                              \E e \in Range(m.entry_points) : e.execution_model = m.model}] :
          blobs = Blobs(ms)
    /\ programs = <<>>
    /\ PassStart
    /\ WriterIdle

SpecEntry == InitEntry /\ [][Next]_vars

\* the blob a source of the result was translated from
BlobOfSource(source) ==
    CHOOSE b \in Range(blobs) : b.snippet_index = source.snippet_index

\* the entry point name the translator reports for a module: that of the first
\* entry point whose execution model is the module's
Reported(module) ==
    LET eps == module.entry_points
    IN CHOOSE name \in {e.name : e \in Range(eps)} :
          \E k \in DOMAIN eps :
             /\ eps[k].name = name
             /\ eps[k].execution_model = module.model
             /\ \A h \in 1..(k - 1) : eps[h].execution_model # module.model

MetalFamily == {"METAL_MACOS", "METAL_IOS", "METAL_SIM"}

(* C11: on every target the entry point of a reflection record of the       *)
(* result is the entry point name the translator reports for the shader,    *)
(* except on METAL_MACOS, METAL_IOS and METAL_SIM, where it is that name    *)
(* followed by "0"; this holds from the moment the record is built to the   *)
(* end of the pass.                                                         *)
C11_EntryPoint ==
    /\ \A s \in DOMAIN Sources :
          Sources[s].refl.entry_point =
             IF slang \in MetalFamily
             THEN Reported(BlobOfSource(Sources[s]).bytecode) \o "0"
             ELSE Reported(BlobOfSource(Sources[s]).bytecode)
    /\ Reflected =>
          src.refl.entry_point =
             IF slang \in MetalFamily
             THEN Reported(blobs[bi].bytecode) \o "0"
             ELSE Reported(blobs[bi].bytecode)

\* a finished Metal pass with a renamed entry point that was not "main", and one
\* taken from a module with several entry points
C11_Witness ==
    /\ Done
    /\ ~Error.valid
    /\ slang = "METAL_SIM"
    /\ Len(Sources) = MaxEntryBlobs
    /\ Sources[1].refl.entry_point = "vs_main0"
    /\ Sources[2].refl.entry_point = "main00"


----------------------------------------------------------------------------
(* C12: the steps of a pass are strictly ordered.  In the history of the    *)
(* pass the blobs are taken in order; for each blob fix_bind_slots directly *)
(* precedes the compile call, parse_reflection follows only a successful    *)
(* compile, the source is appended next, then the uniform blocks and then   *)
(* the images are deduplicated, and only then the next blob is taken;       *)
(* validate_linking appears at most once, as the last step, after every     *)
(* blob was translated and deduplicated and no step failed.                 *)

\* entry k of the history is step name on the blob of entry k + 1
Precedes(k, name) ==
    /\ k >= 1
    /\ trace[k].step = name
    /\ trace[k].blob = trace[k + 1].blob

C12_StepOrder ==
    \A k \in DOMAIN trace :
       LET e == trace[k]
       IN /\ e.step = "blob" =>
                IF k = 1 THEN e.blob = 1
                ELSE /\ trace[k - 1].step = "gather_unique_images"
                     /\ trace[k - 1].ok
                     /\ e.blob = trace[k - 1].blob + 1
          /\ e.step = "fix_bind_slots" => Precedes(k - 1, "blob")
          /\ e.step = "compile" => Precedes(k - 1, "fix_bind_slots")
          /\ e.step = "parse_reflection" =>
                Precedes(k - 1, "compile") /\ trace[k - 1].ok
          /\ e.step = "push_back" => Precedes(k - 1, "parse_reflection")
          /\ e.step = "gather_unique_uniform_blocks" => Precedes(k - 1, "push_back")
          /\ e.step = "gather_unique_images" =>
                Precedes(k - 1, "gather_unique_uniform_blocks") /\ trace[k - 1].ok
          /\ e.step = "validate_linking" =>
                /\ k = Len(trace)
                /\ \A j \in 1..(k - 1) : trace[j].ok /\ trace[j].step # "validate_linking"
                /\ \A i \in DOMAIN blobs :
                      \E j \in 1..(k - 1) :
                         /\ trace[j].step = "gather_unique_images"
                         /\ trace[j].blob = i
                         /\ \E h \in 1..(j - 1) :
                               trace[h].step = "compile" /\ trace[h].blob = i

\* a finished pass over several blobs whose linking was validated
C12_Witness ==
    /\ Done
    /\ Len(blobs) >= 2
    /\ Len(trace) > 2 * Len(blobs)
    /\ trace[Len(trace)].step = "validate_linking"
    /\ \E k \in DOMAIN trace : trace[k].step = "parse_reflection" /\ trace[k].blob = 2


----------------------------------------------------------------------------
(* C13: the re-scan of the sources by the dedup step leaves earlier results *)
(* alone.  In every step of a pass: a uniform block or image that has a     *)
(* unique_index keeps it; the pools keep their entries in place (the old    *)
(* pool is a prefix of the new one) and never hold a name twice; and an     *)
(* entry added to a pool carries a name that occurs in the source appended  *)
(* last and in no source before it.  After a successful dedup step every    *)
(* block (image) of every source has an index.                              *)

\* pool is a prefix of pool2
IsPrefix(pool, pool2) ==
    /\ Len(pool) <= Len(pool2)
    /\ \A i \in DOMAIN pool : pool2[i] = pool[i]

NoNameTwice(pool) ==
    \A a, b \in DOMAIN pool : pool[a].name = pool[b].name => a = b

\* the entries pool2 has beyond pool carry names of items of the last source, met
\* in no source before it; items(source) is the source's list of blocks or images
GrowsByLastSource(pool, pool2, sources, items(_)) ==
    \A i \in (Len(pool) + 1)..Len(pool2) :
       /\ sources # <<>>
       /\ \E x \in Range(items(sources[Len(sources)])) : x.name = pool2[i].name
       /\ \A s \in 1..(Len(sources) - 1) :
             \A x \in Range(items(sources[s])) : x.name # pool2[i].name

\* every item with an index in sources keeps it in sources2
IndicesKept(sources, sources2, items(_)) ==
    \A s \in DOMAIN sources : \A j \in DOMAIN items(sources[s]) :
       items(sources[s])[j].unique_index >= 0 =>
          /\ s \in DOMAIN sources2
          /\ j \in DOMAIN items(sources2[s])
          /\ items(sources2[s])[j].unique_index = items(sources[s])[j].unique_index

UbItems(source) == source.refl.uniform_blocks

ImgItems(source) == source.refl.images

AllIndexed(sources, items(_)) ==
    \A s \in DOMAIN sources : \A x \in Range(items(sources[s])) : x.unique_index >= 0

RescanFrame(old, new, at, at2) ==
    /\ IsPrefix(old.unique_uniform_blocks, new.unique_uniform_blocks)
    /\ IsPrefix(old.unique_images, new.unique_images)
    /\ NoNameTwice(new.unique_uniform_blocks)
    /\ NoNameTwice(new.unique_images)
    /\ GrowsByLastSource(old.unique_uniform_blocks, new.unique_uniform_blocks,
                         new.sources, UbItems)
    /\ GrowsByLastSource(old.unique_images, new.unique_images, new.sources, ImgItems)
    /\ IndicesKept(old.sources, new.sources, UbItems)
    /\ IndicesKept(old.sources, new.sources, ImgItems)
    /\ (at = "gather_unique_uniform_blocks" /\ at2 = "gather_unique_images")
          => AllIndexed(new.sources, UbItems)
    /\ (at = "gather_unique_images" /\ at2 = "loop")
          => AllIndexed(new.sources, ImgItems)

C13_RescanIdempotent == [][RescanFrame(spv_cross, spv_cross', pc, pc')]_vars

\* the dedup of a later source has re-scanned an earlier one: both share a
\* uniform block and an image, and the later one brought a new pool entry
C13_Witness ==
    /\ pc = "loop"
    /\ Len(Sources) >= 2
    /\ \E p, q \in ImgPositions :
          /\ p[1] < q[1]
          /\ ImgAt(p).name = ImgAt(q).name
          /\ ImgAt(p).unique_index = ImgAt(q).unique_index
          /\ ImgAt(p).unique_index >= 0
    /\ \E q \in ImgPositions : q[1] >= 2 /\ ImgAt(q).unique_index >= 1


====
